---- MODULE Spec2Model ----
(***************************************************************************)
(* A model of the Glow flow of src/flows/glow.py: the invertible 1x1       *)
(* convolution InvertibleConv1x1 (LU-parameterised channel mixing) and the *)
(* Glow pipeline that chains actnorm, invertible linear and affine         *)
(* coupling layers, forward in declared order and backward in reverse.     *)
(*                                                                         *)
(* Numbers.  Tensor entries are exact rationals <<n, d>> (d > 0, lowest    *)
(* terms).  A logarithm is kept as the real ln(q) of a rational q >= 0,    *)
(* written [ln |-> q]: ln(a) + ln(b) = ln(a*b), -ln(a) = ln(1/a),          *)
(* exp(ln(q)) = q, ln(0) = -inf.  Floating-point rounding is not modelled, *)
(* so "within tolerance" reads as equality.                                *)
(*                                                                         *)
(* Tensors.  A tensor is [shape |-> <<d1, .., dk>>, data |-> row-major     *)
(* sequence of its entries], as torch stores a contiguous tensor.          *)
(***************************************************************************)
EXTENDS Integers, Sequences, FiniteSets, TLC

\* ------------------------------------------------------------------ bounds
\* Largest number of entries of an input batch.
MaxElems == 4
\* Largest number of optimizer writes to trainable entries.
MaxUpdates == 1
\* Largest number of stages (n_layers) of a pipeline.
MaxLayers == 2
\* The channel count the layers are built for (n_dims).
Channels == 2

\* ------------------------------------------------------------------- state
VARIABLES
    n_layers,    \* Glow.n_layers
    linears,     \* Glow.linears: the InvertibleConv1x1 parameters of each stage
    built,       \* the linears as __init__ left them
    nUpdates,    \* optimizer writes so far
    lin,         \* the last direct call of linears[1].forward / .backward
    actnorms,    \* Glow.actnorms
    couplings,   \* Glow.couplings
    glow         \* the last call of Glow.forward / Glow.backward

vars == <<n_layers, linears, built, nUpdates, lin, actnorms, couplings, glow>>

NoCall == [op |-> "none"]

\* f applied to the value of x (x is evaluated once, before f's body).
Bind(x, f(_)) == CHOOSE r \in { f(v) : v \in {x} } : TRUE

\* ------------------------------------------------------------- rationals
RECURSIVE Gcd(_, _)
Gcd(a, b) == IF b = 0 THEN a ELSE Gcd(b, a % b)

Abs(n) == IF n < 0 THEN -n ELSE n

\* n/d in lowest terms with a positive denominator (d # 0).
Norm(n, d) ==
    LET g == Gcd(Abs(n), Abs(d))
        s == IF d < 0 THEN -1 ELSE 1
    IN  <<(s * n) \div g, (s * d) \div g>>

R(n) == <<n, 1>>
\* Sums and products cancel common factors before multiplying, to keep the
\* intermediate integers small.
RAdd(a, b) ==
    LET g == Gcd(a[2], b[2])
    IN  Norm(a[1] * (b[2] \div g) + b[1] * (a[2] \div g), (a[2] \div g) * b[2])
RNeg(a) == <<-a[1], a[2]>>
RSub(a, b) == RAdd(a, RNeg(b))
RMul(a, b) ==
    LET g == Gcd(Abs(a[1]), b[2])
        h == Gcd(Abs(b[1]), a[2])
    IN  IF a[1] = 0 \/ b[1] = 0 THEN <<0, 1>>
        ELSE <<(a[1] \div g) * (b[1] \div h), (a[2] \div h) * (b[2] \div g)>>
\* a / b for b # 0.
RDiv(a, b) == RMul(a, IF b[1] < 0 THEN <<-b[2], -b[1]>> ELSE <<b[2], b[1]>>)
RAbs(a) == <<Abs(a[1]), a[2]>>
RLess(a, b) == a[1] * b[2] < b[1] * a[2]
RZero == R(0)
ROne == R(1)

RECURSIVE RSum(_)
RSum(s) == IF s = <<>> THEN RZero ELSE RAdd(s[1], RSum(Tail(s)))

\* ------------------------------------------------------------ logarithms
\* torch.log of a rational q >= 0.
Log(q) == [ln |-> q]
\* torch.exp of a logarithm.
Exp(l) == l.ln
LZero == [ln |-> ROne]
LAdd(a, b) == [ln |-> RMul(a.ln, b.ln)]
\* a - b (b finite).
LSub(a, b) == [ln |-> RDiv(a.ln, b.ln)]
LNeg(a) == LSub(LZero, a)

\* torch.sum(log_s, dim=0): the sum of a vector of logarithms.
RECURSIVE LSum(_)
LSum(s) == IF s = <<>> THEN LZero ELSE LAdd(s[1], LSum(Tail(s)))

\* torch.sign.
Sign(a) == IF a[1] > 0 THEN R(1) ELSE IF a[1] < 0 THEN R(-1) ELSE R(0)

\* --------------------------------------------------------------- matrices
\* A matrix is a sequence of rows.
Dim(A) == Len(A)
Mat(n, f(_, _)) == [i \in 1..n |-> [j \in 1..n |-> f(i, j)]]

\* torch.eye(n).
Eye(n) == Mat(n, LAMBDA i, j: IF i = j THEN ROne ELSE RZero)
\* A @ B.
MatMul(A, B) ==
    Mat(Dim(A), LAMBDA i, j: RSum([k \in 1..Dim(A) |-> RMul(A[i][k], B[k][j])]))
\* A * B, elementwise.
Hadamard(A, B) == Mat(Dim(A), LAMBDA i, j: RMul(A[i][j], B[i][j]))
\* A + B.
MatAdd(A, B) == Mat(Dim(A), LAMBDA i, j: RAdd(A[i][j], B[i][j]))
\* torch.diag of a vector: the diagonal matrix.
DiagMat(v) == Mat(Len(v), LAMBDA i, j: IF i = j THEN v[i] ELSE RZero)
\* torch.diag of a matrix: its diagonal.
DiagOf(A) == [i \in 1..Dim(A) |-> A[i][i]]

\* The reference determinant: Laplace expansion along the first row.
Minor(A, c) ==
    [i \in 1..(Dim(A) - 1) |->
        [j \in 1..(Dim(A) - 1) |-> A[i + 1][IF j < c THEN j ELSE j + 1]]]

RECURSIVE Det(_)
Det(A) ==
    IF Dim(A) = 0 THEN ROne
    ELSE RSum([c \in 1..Dim(A) |->
            RMul(IF c % 2 = 1 THEN A[1][c] ELSE RNeg(A[1][c]), Det(Minor(A, c)))])

\* ---------------------------------------------------- LU factorisation
SwapRows(A, i, j) ==
    [r \in 1..Dim(A) |-> IF r = i THEN A[j] ELSE IF r = j THEN A[i] ELSE A[r]]
SwapCols(A, i, j) ==
    [r \in 1..Dim(A) |->
        [c \in 1..Dim(A) |->
            IF c = i THEN A[r][j] ELSE IF c = j THEN A[r][i] ELSE A[r][c]]]
SwapElems(v, i, j) ==
    [r \in 1..Len(v) |-> IF r = i THEN v[j] ELSE IF r = j THEN v[i] ELSE v[r]]

\* The first row at or below k whose entry in column k is largest in magnitude.
PivotRow(A, k) ==
    CHOOSE p \in k..Dim(A) :
        /\ \A i \in k..Dim(A) : ~RLess(RAbs(A[p][k]), RAbs(A[i][k]))
        /\ \A i \in k..(p - 1) : RLess(RAbs(A[i][k]), RAbs(A[p][k]))

\* One elimination step on column k of the row-swapped matrix S.
Eliminate(S, k) ==
    [i \in 1..Dim(S) |->
        IF i <= k \/ S[k][k] = RZero THEN S[i]
        ELSE LET m == RDiv(S[i][k], S[k][k])
             IN  [j \in 1..Dim(S) |->
                    IF j < k THEN S[i][j]
                    ELSE IF j = k THEN m
                    ELSE RSub(S[i][j], RMul(m, S[k][j]))]]

\* torch.lu: partial-pivoting LU, packed (L strictly below the diagonal, U on and
\* above it), with the 1-based pivot sequence.
RECURSIVE LUFrom(_, _, _)
LUFrom(A, pivots, k) ==
    IF k > Dim(A) THEN [LU |-> A, pivots |-> pivots]
    ELSE LET p == PivotRow(A, k)
         IN  LUFrom(Eliminate(SwapRows(A, k, p), k), Append(pivots, p), k + 1)

lu(W) == LUFrom(W, <<>>, 1)

\* The permutation matrix of a pivot sequence: P with W = P @ L @ U.
RECURSIVE PermFrom(_, _, _)
PermFrom(M, pivots, k) ==
    IF k > Len(pivots) THEN M ELSE PermFrom(SwapCols(M, k, pivots[k]), pivots, k + 1)

\* np.tril(ones, k=-1): ones strictly below the diagonal.
TrilMask(n) == Mat(n, LAMBDA i, j: IF i > j THEN ROne ELSE RZero)
\* Its transpose: ones strictly above the diagonal.
TriuMask(n) == Mat(n, LAMBDA i, j: TrilMask(n)[j][i])

\* torch.lu_unpack: P, unit lower-triangular L, upper-triangular U.
lu_unpack(LU, pivots) ==
    [P |-> PermFrom(Eye(Dim(LU)), pivots, 1),
     L |-> MatAdd(Hadamard(LU, TrilMask(Dim(LU))), Eye(Dim(LU))),
     U |-> Mat(Dim(LU), LAMBDA i, j: IF i <= j THEN LU[i][j] ELSE RZero)]

\* The row interchanges of a pivot sequence applied to a vector, in order.
RECURSIVE ApplyPivots(_, _, _)
ApplyPivots(v, pivots, k) ==
    IF k > Len(pivots) THEN v ELSE ApplyPivots(SwapElems(v, k, pivots[k]), pivots, k + 1)

\* Forward substitution with the unit lower triangle of LU.
RECURSIVE ForwardSubst(_, _, _)
ForwardSubst(LU, b, y) ==
    IF Len(y) = Len(b) THEN y
    ELSE LET i == Len(y) + 1
         IN  ForwardSubst(LU, b,
                Append(y, RSub(b[i], RSum([j \in 1..(i - 1) |-> RMul(LU[i][j], y[j])]))))

\* Back substitution with the upper triangle of LU; x holds entries i+1..n.
RECURSIVE BackSubst(_, _, _)
BackSubst(LU, y, x) ==
    IF Len(x) = Len(y) THEN x
    ELSE LET i == Len(y) - Len(x)
             n == Len(y)
             rest == RSum([j \in 1..(n - i) |-> RMul(LU[i][i + j], x[j])])
         IN  BackSubst(LU, y, <<RDiv(RSub(y[i], rest), LU[i][i])>> \o x)

\* torch.lu_solve for one right-hand side: the x with (P @ L @ U) x = b.
lu_solve1(b, LU, pivots) ==
    BackSubst(LU, ForwardSubst(LU, ApplyPivots(b, pivots, 1), <<>>), <<>>)

\* ---------------------------------------------------------------- tensors
RECURSIVE Prod(_)
Prod(s) == IF s = <<>> THEN 1 ELSE s[1] * Prod(Tail(s))

\* z.size(0), z.size(1) and the flattened extent of the remaining dimensions.
BatchSize(z) == z.shape[1]
ChannelsOf(z) == z.shape[2]
RestOf(z) == Prod(SubSeq(z.shape, 3, Len(z.shape)))
LastDim(z) == z.shape[Len(z.shape)]

\* Entry (b, c, s) of z.view(B, C, -1).
At(z, b, c, s) == z.data[((b - 1) * ChannelsOf(z) + (c - 1)) * RestOf(z) + s]

\* torch.zeros(B): a zero log-determinant per sample.
Zeros(B) == [i \in 1..B |-> LZero]
\* acc += l and acc -= l, the scalar broadcast over the accumulator.
AccAdd(acc, l) == [i \in DOMAIN acc |-> LAdd(acc[i], l)]
AccSub(acc, l) == [i \in DOMAIN acc |-> LSub(acc[i], l)]

\* ------------------------------------------------------ InvertibleConv1x1
\* Which tensors of the layer the optimizer may write (requires_grad).
RequiresGradWrong(name) == name \in {"L", "U", "log_s", "sign_s"}
RequiresGrad(name) == name \in {"L", "U", "log_s"}

\* np.tril(ones, k=-1), the strictly-lower mask of __init__.
LMaskWrong(n) == Mat(n, LAMBDA i, j: IF i >= j THEN ROne ELSE RZero)
LMask(n) == TrilMask(n)

\* __init__ from the orthogonal matrix W drawn by nn.init.orthogonal_.
InvertibleConv1x1(W) ==
    LET f == lu(W)
        u == lu_unpack(f.LU, f.pivots)
        s == DiagOf(u.U)
    IN  [P |-> u.P, L |-> u.L, U |-> u.U, I |-> Eye(Dim(W)),
         pivots |-> f.pivots,
         L_mask |-> LMask(Dim(W)), U_mask |-> TriuMask(Dim(W)),
         log_s |-> [i \in 1..Dim(W) |-> Log(RAbs(s[i]))],
         sign_s |-> [i \in 1..Dim(W) |-> Sign(s[i])]]

\* sign_s * exp(log_s).
ScaleDiag(m) == [i \in 1..Len(m.log_s) |-> RMul(m.sign_s[i], Exp(m.log_s[i]))]
\* The effective factors and weight of forward.
EffL(m) == MatAdd(Hadamard(m.L, m.L_mask), m.I)
EffUNoMask(m) == MatAdd(m.U, DiagMat(ScaleDiag(m)))
EffU(m) == MatAdd(Hadamard(m.U, m.U_mask), DiagMat(ScaleDiag(m)))
WeightNoPerm(m) == MatMul(EffL(m), EffU(m))
Weight(m) == MatMul(MatMul(m.P, EffL(m)), EffU(m))
\* The packed factor of backward.
PackedLU(m) ==
    MatAdd(MatAdd(Hadamard(m.L, m.L_mask), Hadamard(m.U, m.U_mask)),
           DiagMat(ScaleDiag(m)))

\* torch.matmul(W, z.view(B, C, -1)).view(z.size()); W is applied across the
\* channel dimension at every sample and spatial position.
MatmulChannels(W, z) ==
    [shape |-> z.shape,
     data |-> [k \in 1..Len(z.data) |->
        LET r == RestOf(z)
            c == ChannelsOf(z)
            s == ((k - 1) % r) + 1
            i == (((k - 1) \div r) % c) + 1
            b == ((k - 1) \div (r * c)) + 1
        IN  RSum([j \in 1..c |-> RMul(W[i][j], At(z, b, j, s))])]]

\* forward(z, log_det_jacobians): matmul raises when the batch's channel count
\* is not the weight's; the accumulator is updated after it.
LogdetAdd(m, acc) == AccAdd(acc, LSum(m.log_s))

Conv1x1Forward(m, z, acc) ==
    IF ChannelsOf(z) # Dim(m.P)
    THEN [status |-> "error", z |-> z, log_det_jacobians |-> acc]
    ELSE [status |-> "ok", z |-> Bind(Weight(m), LAMBDA W: MatmulChannels(W, z)),
          log_det_jacobians |-> LogdetAdd(m, acc)]

\* torch.lu_solve(y.unsqueeze(-1), LU.unsqueeze(0), pivots.unsqueeze(0)).squeeze(-1):
\* the right-hand sides are the columns of the trailing (rows x 1) matrices of
\* y.unsqueeze(-1), i.e. the runs of y along its LAST dimension; the leading
\* dimensions are batch dimensions, broadcast against LU's single one.
SolveNoPivots(y, LU, pivots) ==
    [shape |-> y.shape,
     data |-> [k \in 1..Len(y.data) |->
        LET n == LastDim(y)
            row == (k - 1) \div n
            rhs == [j \in 1..n |-> y.data[row * n + j]]
        IN  BackSubst(LU, ForwardSubst(LU, rhs, <<>>), <<>>)[((k - 1) % n) + 1]]]
SolveLastDim(y, LU, pivots) ==
    [shape |-> y.shape,
     data |-> [k \in 1..Len(y.data) |->
        LET n == LastDim(y)
            row == (k - 1) \div n
            rhs == [j \in 1..n |-> y.data[row * n + j]]
        IN  lu_solve1(rhs, LU, pivots)[((k - 1) % n) + 1]]]

\* log_det_jacobians -= torch.sum(self.log_s, dim=0)
LogdetSubAdds(m, acc) == AccAdd(acc, LSum(m.log_s))
LogdetSub(m, acc) == AccSub(acc, LSum(m.log_s))

\* backward(y, log_det_jacobians): lu_solve raises when the right-hand sides do
\* not have as many rows as LU; the accumulator is updated after it.
Conv1x1Backward(m, y, acc) ==
    IF LastDim(y) # Dim(m.P)
    THEN [status |-> "error", z |-> y, log_det_jacobians |-> acc]
    ELSE [status |-> "ok",
          z |-> Bind(PackedLU(m), LAMBDA LU: SolveLastDim(y, LU, m.pivots)),
          log_det_jacobians |-> LogdetSub(m, acc)]

\* ------------------------------------------- Actnorm and AffineCoupling
\* The two collaborators of a stage, as bijective layers over (B, C) batches:
\* forward(state, logdet) and backward(state, logdet), backward undoing forward
\* and subtracting the contribution forward added.

\* Entry c of sample b of a (B, C) batch.
Elem(z, b, c) == z.data[(b - 1) * ChannelsOf(z) + c]
MapElems(z, f(_, _)) ==
    [shape |-> z.shape,
     data |-> [k \in 1..Len(z.data) |->
        f(((k - 1) \div ChannelsOf(z)) + 1, ((k - 1) % ChannelsOf(z)) + 1)]]

\* Actnorm: a per-channel shift and scale, z = (y + bias) * exp(logs).
ActnormForward(a, y, acc) ==
    [status |-> "ok",
     z |-> MapElems(y, LAMBDA b, c: RMul(RAdd(Elem(y, b, c), a.bias[c]), Exp(a.logs[c]))),
     log_det_jacobians |-> AccAdd(acc, LSum(a.logs))]
ActnormBackward(a, z, acc) ==
    [status |-> "ok",
     z |-> MapElems(z, LAMBDA b, c: RSub(RDiv(Elem(z, b, c), Exp(a.logs[c])), a.bias[c])),
     log_det_jacobians |-> AccSub(acc, LSum(a.logs))]

\* AffineCoupling: the channels of one half pass through and condition an affine
\* map of the other half, z = y * scale(a) + shift(a) with a the sum of the
\* conditioning channels, scale(a) = 1 + k for a > 0 and 1 otherwise (k >= 0),
\* and shift(a) = w*a.  odd selects which half conditions.
Conditioning(cp, C) == IF cp.odd THEN (C \div 2 + 1)..C ELSE 1..(C \div 2)
CondValue(cp, y, b) ==
    RSum([j \in 1..ChannelsOf(y) |->
        IF j \in Conditioning(cp, ChannelsOf(y)) THEN Elem(y, b, j) ELSE RZero])
CouplingScale(cp, y, b) ==
    IF RLess(RZero, CondValue(cp, y, b)) THEN RAdd(ROne, cp.k) ELSE ROne
CouplingShift(cp, y, b) == RMul(cp.w, CondValue(cp, y, b))
\* The log-determinant of sample b: ln(scale) once per transformed channel.
CouplingLogdet(cp, y, b) ==
    LSum([j \in 1..ChannelsOf(y) |->
        IF j \in Conditioning(cp, ChannelsOf(y)) THEN LZero ELSE Log(CouplingScale(cp, y, b))])

CouplingForward(cp, y, acc) ==
    [status |-> "ok",
     z |-> MapElems(y, LAMBDA b, c:
        IF c \in Conditioning(cp, ChannelsOf(y)) THEN Elem(y, b, c)
        ELSE RAdd(RMul(Elem(y, b, c), CouplingScale(cp, y, b)), CouplingShift(cp, y, b))),
     log_det_jacobians |-> [b \in DOMAIN acc |-> LAdd(acc[b], CouplingLogdet(cp, y, b))]]
CouplingBackward(cp, z, acc) ==
    [status |-> "ok",
     z |-> MapElems(z, LAMBDA b, c:
        IF c \in Conditioning(cp, ChannelsOf(z)) THEN Elem(z, b, c)
        ELSE RDiv(RSub(Elem(z, b, c), CouplingShift(cp, z, b)), CouplingScale(cp, z, b))),
     log_det_jacobians |-> [b \in DOMAIN acc |-> LSub(acc[b], CouplingLogdet(cp, z, b))]]

\* ------------------------------------------------------------------- Glow
\* A pipeline g = [n_layers, actnorms, linears, couplings].  A pass threads
\* st = [z, log_det_jacobians, calls]; calls lists the sub-layer calls made so
\* far, each with the state it was given.
Called(st, layer, i, op, r) ==
    [z |-> r.z, log_det_jacobians |-> r.log_det_jacobians,
     calls |-> Append(st.calls, [layer |-> layer, i |-> i, op |-> op, at |-> st.z])]

ActnormStep(g, i, op, st) ==
    Bind(IF op = "forward"
         THEN ActnormForward(g.actnorms[i], st.z, st.log_det_jacobians)
         ELSE ActnormBackward(g.actnorms[i], st.z, st.log_det_jacobians),
         LAMBDA r: Called(st, "actnorm", i, op, r))
LinearStep(g, i, op, st) ==
    Bind(IF op = "forward"
         THEN Conv1x1Forward(g.linears[i], st.z, st.log_det_jacobians)
         ELSE Conv1x1Backward(g.linears[i], st.z, st.log_det_jacobians),
         LAMBDA r: Called(st, "linear", i, op, r))
CouplingStep(g, i, op, st) ==
    Bind(IF op = "forward"
         THEN CouplingForward(g.couplings[i], st.z, st.log_det_jacobians)
         ELSE CouplingBackward(g.couplings[i], st.z, st.log_det_jacobians),
         LAMBDA r: Called(st, "coupling", i, op, r))

\* The body of forward's loop for stage i: actnorm, invertible linear, coupling.
ForwardStage(g, i, st) ==
    Bind(ActnormStep(g, i, "forward", st), LAMBDA a:
        Bind(LinearStep(g, i, "forward", a), LAMBDA l:
            CouplingStep(g, i, "forward", l)))

\* The body of backward's loop for stage i: coupling, invertible linear, actnorm.
BackwardStage(g, i, st) ==
    Bind(CouplingStep(g, i, "backward", st), LAMBDA c:
        Bind(LinearStep(g, i, "backward", c), LAMBDA l:
            ActnormStep(g, i, "backward", l)))

\* for i in range(n_layers)
RECURSIVE ForwardLoop(_, _, _)
ForwardLoop(g, i, st) ==
    IF i > g.n_layers THEN st
    ELSE Bind(ForwardStage(g, i, st), LAMBDA s: ForwardLoop(g, i + 1, s))

\* for i in reversed(range(n_layers))
RECURSIVE AscendFrom(_, _, _)
AscendFrom(g, j, st) ==
    IF j > g.n_layers THEN st
    ELSE Bind(BackwardStage(g, j, st), LAMBDA s: AscendFrom(g, j + 1, s))
BackwardLoopAscending(g, i, st) == AscendFrom(g, 1, st)
RECURSIVE BackwardLoop(_, _, _)
BackwardLoop(g, i, st) ==
    IF i < 1 THEN st
    ELSE Bind(BackwardStage(g, i, st), LAMBDA s: BackwardLoop(g, i - 1, s))

\* The accumulator a pass starts from: torch.zeros(z.size(0)).
StartLogdetCarried(z) ==
    IF glow # NoCall /\ Len(glow.logdet) = BatchSize(z) THEN glow.logdet
    ELSE Zeros(BatchSize(z))
StartLogdet(z) == Zeros(BatchSize(z))

\* Glow.forward(y) and Glow.backward(z).
GlowForward(g, y) ==
    Bind([z |-> y, log_det_jacobians |-> StartLogdet(y), calls |-> <<>>],
         LAMBDA st: ForwardLoop(g, 1, st))
GlowBackward(g, z) ==
    Bind([z |-> z, log_det_jacobians |-> StartLogdet(z), calls |-> <<>>],
         LAMBDA st: BackwardLoop(g, g.n_layers, st))

\* ------------------------------------------------------------------ inputs
\* Orthogonal 2x2 matrices nn.init.orthogonal_ can draw: a quarter turn, a
\* rotation and a reflection (3-4-5 triangle).
OrthogonalInits ==
    { << <<R(0), R(-1)>>, <<R(1), R(0)>> >>,
      << <<Norm(3, 5), Norm(-4, 5)>>, <<Norm(4, 5), Norm(3, 5)>> >>,
      << <<Norm(4, 5), Norm(3, 5)>>, <<Norm(3, 5), Norm(-4, 5)>> >> }

\* Entries of input batches.
BatchVals == {R(0), R(1)}
\* Values an update writes into an entry of L or U, and into log_s.
ParamVals == {R(-1), R(2)}
LogVals == {Log(Norm(1, 2)), Log(R(2))}

\* Shapes (B, C) and (B, C, S) of at most MaxElems entries; C ranges over the
\* configured channel count and its neighbours.
Shapes ==
    { sh \in UNION { [1..k -> 1..MaxElems] : k \in 2..3 } :
        /\ sh[2] <= Channels + 1
        /\ Prod(sh) <= MaxElems }
Tensors(sh) == { [shape |-> sh, data |-> d] : d \in [1..Prod(sh) -> BatchVals] }
Batches == UNION { Tensors(sh) : sh \in Shapes }
\* Batches of the configured channel count without spatial dimensions.
VectorBatches == UNION { Tensors(sh) : sh \in { t \in Shapes : Len(t) = 2 /\ t[2] = Channels } }
\* Accumulators handed to a layer: zeros, or a running value.
Accs(B) == { Zeros(B), [i \in 1..B |-> Log(R(2))] }

\* ------------------------------------------------- the layer on its own
InitLinear ==
    /\ n_layers = 1
    /\ \E W \in OrthogonalInits : linears = <<InvertibleConv1x1(W)>>
    /\ built = linears
    /\ nUpdates = 0
    /\ lin = NoCall
    /\ actnorms = <<>>
    /\ couplings = <<>>
    /\ glow = NoCall

\* The optimizer (or any holder of the parameters) writes a value into one entry
\* of a tensor that requires grad.
WriteEntry(m, name, r, c, v) ==
    CASE name = "L" -> [m EXCEPT !.L[r][c] = v]
      [] name = "U" -> [m EXCEPT !.U[r][c] = v]
      [] name = "P" -> [m EXCEPT !.P[r][c] = v]
      [] name = "sign_s" -> [m EXCEPT !.sign_s[r] = v]
      [] name = "log_s" -> [m EXCEPT !.log_s[r] = v]

\* The tensors of a layer and the entries of each.
TensorNames == {"P", "L", "U", "log_s", "sign_s"}
Entries(name) ==
    IF name \in {"log_s", "sign_s"} THEN (1..Channels) \X {1}
    ELSE (1..Channels) \X (1..Channels)

ValuesOf(name) == IF name = "log_s" THEN LogVals ELSE ParamVals

\* Parameters are written between calls, never during one.
Update ==
    /\ lin = NoCall
    /\ glow = NoCall
    /\ nUpdates < MaxUpdates
    /\ \E i \in 1..n_layers, name \in TensorNames :
          \E e \in Entries(name), v \in ValuesOf(name) :
             /\ RequiresGrad(name)
             /\ linears' = [linears EXCEPT ![i] = WriteEntry(@, name, e[1], e[2], v)]
    /\ nUpdates' = nUpdates + 1
    /\ UNCHANGED <<n_layers, built, lin, actnorms, couplings, glow>>

LinearForward ==
    /\ lin = NoCall
    /\ \E z \in Batches : \E acc \in Accs(BatchSize(z)) :
          LET r == Conv1x1Forward(linears[1], z, acc)
          IN  lin' = [op |-> "forward", status |-> r.status, in |-> z, acc_in |-> acc,
                      out |-> r.z, acc_out |-> r.log_det_jacobians, of |-> NoCall]
    /\ UNCHANGED <<n_layers, linears, built, nUpdates, actnorms, couplings, glow>>

LinearBackward ==
    /\ lin = NoCall
    /\ \E y \in Batches : \E acc \in Accs(BatchSize(y)) :
          LET r == Conv1x1Backward(linears[1], y, acc)
          IN  lin' = [op |-> "backward", status |-> r.status, in |-> y, acc_in |-> acc,
                      out |-> r.z, acc_out |-> r.log_det_jacobians, of |-> NoCall]
    /\ UNCHANGED <<n_layers, linears, built, nUpdates, actnorms, couplings, glow>>

\* backward called on what the last forward returned.
LinearInverse ==
    /\ lin.op = "forward" /\ lin.status = "ok"
    /\ LET r == Conv1x1Backward(linears[1], lin.out, lin.acc_out)
       IN  lin' = [op |-> "backward", status |-> r.status, in |-> lin.out,
                   acc_in |-> lin.acc_out, out |-> r.z,
                   acc_out |-> r.log_det_jacobians,
                   of |-> [in |-> lin.in, acc_in |-> lin.acc_in]]
    /\ UNCHANGED <<n_layers, linears, built, nUpdates, actnorms, couplings, glow>>

\* The caller is done with the result of the last call.
LinearReturn ==
    /\ lin # NoCall
    /\ lin' = NoCall
    /\ UNCHANGED <<n_layers, linears, built, nUpdates, actnorms, couplings, glow>>

NextLinear ==
    Update \/ LinearForward \/ LinearBackward \/ LinearInverse \/ LinearReturn

SpecLinear == InitLinear /\ [][NextLinear]_vars

\* ------------------------------------------------------------ the pipeline
\* Parameters the collaborators can hold: the identity setting (zero shift, unit
\* scale) and a generic one.
CollaboratorInits ==
    { [logs |-> [c \in 1..Channels |-> LZero], bias |-> [c \in 1..Channels |-> RZero],
       w |-> R(0), k |-> R(0)],
      [logs |-> [c \in 1..Channels |-> Log(R(c + 1))],
       bias |-> [c \in 1..Channels |-> R(c % 2)],
       w |-> R(1), k |-> R(1)] }

\* Glow.__init__: n_layers stages, the coupling of stage i (0-based) odd when
\* i % 2 != 0.
Init ==
    /\ n_layers \in 1..MaxLayers
    /\ linears \in [1..n_layers -> { InvertibleConv1x1(W) : W \in OrthogonalInits }]
    /\ \E c \in CollaboratorInits :
          /\ actnorms = [i \in 1..n_layers |-> [logs |-> c.logs, bias |-> c.bias]]
          /\ couplings = [i \in 1..n_layers |->
                            [odd |-> (i - 1) % 2 # 0, w |-> c.w, k |-> c.k]]
    /\ built = linears
    /\ nUpdates = 0
    /\ lin = NoCall
    /\ glow = NoCall

Net == [n_layers |-> n_layers, actnorms |-> actnorms, linears |-> linears,
        couplings |-> couplings]

\* net(y): Glow.forward on a batch of samples.
Forward ==
    /\ glow = NoCall
    /\ \E y \in VectorBatches :
          LET r == GlowForward(Net, y)
          IN  glow' = [op |-> "forward", in |-> y, out |-> r.z,
                       logdet |-> r.log_det_jacobians, calls |-> r.calls, of |-> NoCall]
    /\ UNCHANGED <<n_layers, linears, built, nUpdates, lin, actnorms, couplings>>

\* net(y) once more on the same batch.
ForwardAgain ==
    /\ glow # NoCall /\ glow.op = "forward"
    /\ LET r == GlowForward(Net, glow.in)
       IN  glow' = [op |-> "forward", in |-> glow.in, out |-> r.z,
                    logdet |-> r.log_det_jacobians, calls |-> r.calls, of |-> NoCall]
    /\ UNCHANGED <<n_layers, linears, built, nUpdates, lin, actnorms, couplings>>

\* net.backward(z): Glow.backward on a latent batch.
Backward ==
    /\ glow = NoCall
    /\ \E z \in VectorBatches :
          LET r == GlowBackward(Net, z)
          IN  glow' = [op |-> "backward", in |-> z, out |-> r.z,
                       logdet |-> r.log_det_jacobians, calls |-> r.calls, of |-> NoCall]
    /\ UNCHANGED <<n_layers, linears, built, nUpdates, lin, actnorms, couplings>>

\* net.backward on the state the last forward returned.
Inverse ==
    /\ glow # NoCall /\ glow.op = "forward"
    /\ LET r == GlowBackward(Net, glow.out)
       IN  glow' = [op |-> "backward", in |-> glow.out, out |-> r.z,
                    logdet |-> r.log_det_jacobians, calls |-> r.calls,
                    of |-> [in |-> glow.in, logdet |-> glow.logdet, calls |-> glow.calls]]
    /\ UNCHANGED <<n_layers, linears, built, nUpdates, lin, actnorms, couplings>>

\* The caller is done with the result of the last call.
Return ==
    /\ glow # NoCall
    /\ glow' = NoCall
    /\ UNCHANGED <<n_layers, linears, built, nUpdates, lin, actnorms, couplings>>

Next == Update \/ Forward \/ ForwardAgain \/ Backward \/ Inverse \/ Return

Spec == Init /\ [][Next]_vars

\* ================================================================ claims
\* ------------------------------------------------ InvertibleConv1x1 alone

IsForwardOk == lin.op = "forward" /\ lin.status = "ok"
\* backward was called on what forward(x, 0) returned.
IsInverseOfForward == lin.op = "backward" /\ lin.of # NoCall
HasSpatial(z) == Len(z.shape) > 2

\* C5: backward applied to the result of forward(x, 0) returns (x, 0), for every
\* batch x of the configured channel count, with or without spatial dimensions.
C5_LinearRoundTrip ==
    (IsInverseOfForward /\ lin.of.acc_in = Zeros(BatchSize(lin.of.in)))
        => /\ lin.status = "ok"
           /\ lin.out = lin.of.in
           /\ lin.acc_out = lin.of.acc_in

\* The same round trip for batches (B, C) without spatial dimensions, where the
\* last dimension is the channel dimension.
LinearRoundTripVectors ==
    (IsInverseOfForward /\ ~HasSpatial(lin.of.in))
        => /\ lin.status = "ok"
           /\ lin.out = lin.of.in
           /\ lin.acc_out = lin.of.acc_in

IsUnitLower(A) ==
    \A i, j \in 1..Dim(A) :
        /\ (i = j => A[i][j] = ROne)
        /\ (i < j => A[i][j] = RZero)
IsUpper(A) == \A i, j \in 1..Dim(A) : i > j => A[i][j] = RZero

\* C6: whatever was written into L, U and log_s, the effective L is unit
\* lower-triangular, the effective U is upper-triangular with diagonal
\* sign_s * exp(log_s), every sign_s entry is +1 or -1, every diagonal entry is
\* nonzero, and W = P @ L @ U is invertible.
C6_AlwaysInvertible ==
    \A n \in 1..n_layers :
        \E m \in {linears[n]} : \E L \in {EffL(m)} : \E U \in {EffU(m)} :
            /\ IsUnitLower(L)
            /\ IsUpper(U)
            /\ \A i \in 1..Channels :
                  /\ m.sign_s[i] \in {R(1), R(-1)}
                  /\ RLess(RZero, Exp(m.log_s[i]))
                  /\ U[i][i] = RMul(m.sign_s[i], Exp(m.log_s[i]))
                  /\ U[i][i] # RZero
            /\ \E W \in {MatMul(MatMul(m.P, L), U)} :
                  W = Weight(m) /\ Det(W) # RZero

\* An update has written a nonzero value outside the intended triangle of L or U.
C6_Witness ==
    /\ nUpdates > 0
    /\ \E i, j \in 1..Channels :
          \/ (i <= j /\ linears[1].L[i][j] # built[1].L[i][j])
          \/ (i >= j /\ linears[1].U[i][j] # built[1].U[i][j])

\* C7: log|det(W)| of the effective weight, by the reference determinant, is
\* sum(log_s), and that is what forward adds to every entry of the accumulator.
C7_DetCorrect ==
    /\ \A n \in 1..n_layers : \E W \in {Weight(linears[n])} :
          Log(RAbs(Det(W))) = LSum(linears[n].log_s)
    /\ IsForwardOk => \E W \in {Weight(linears[1])} :
          lin.acc_out = AccAdd(lin.acc_in, Log(RAbs(Det(W))))

\* forward ran on updated parameters whose determinant is not 1 in magnitude.
C7_Witness ==
    /\ IsForwardOk
    /\ nUpdates > 0
    /\ LSum(linears[1].log_s) # LZero
    /\ lin.acc_out # lin.acc_in

Frozen(m, m0) == m.P = m0.P /\ m.sign_s = m0.sign_s /\ m.pivots = m0.pivots

\* C8: P, sign_s and the pivots stay as construction left them through every
\* interleaving of forward, backward and updates, and a forward or backward
\* call changes no parameter.
C8_ParameterFreeze ==
    /\ [](\A n \in 1..n_layers : Frozen(linears[n], built[n]))
    /\ [][(lin' # lin /\ lin' # NoCall) => linears' = linears]_vars

\* backward ran after an update changed the trainable parameters.
C8_Witness ==
    /\ nUpdates > 0
    /\ linears # built
    /\ lin.op = "backward" /\ lin.status = "ok"

\* C9: forward or backward on a batch whose channel count is not the layer's
\* ends in an error, the accumulator not yet updated.
C9_ShapeMismatchFailsFast ==
    (lin.op \in {"forward", "backward"} /\ ChannelsOf(lin.in) # Channels)
        => /\ lin.status = "error"
           /\ lin.acc_out = lin.acc_in

\* The forward half of C9.
ForwardMismatchFailsFast ==
    (lin.op = "forward" /\ ChannelsOf(lin.in) # Channels)
        => /\ lin.status = "error"
           /\ lin.acc_out = lin.acc_in

\* ------------------------------------------------------------ the pipeline

IsForward == glow.op = "forward"
\* Glow.backward was called on the state the last Glow.forward returned.
IsInverse == glow.op = "backward" /\ glow.of # NoCall

Contribution(call, b) ==
    CASE call.layer = "actnorm" -> LSum(actnorms[call.i].logs)
      [] call.layer = "linear" -> LSum(linears[call.i].log_s)
      [] call.layer = "coupling" -> CouplingLogdet(couplings[call.i], call.at, b)

\* C3: a forward pass starts from zero and returns, for each sample, the sum of
\* the contributions of its 3N sub-layer calls at the states they saw; every
\* invertible linear layer contributes sum(log_s) once.
C3_ForwardLogdetSum ==
    IsForward =>
        /\ Len(glow.calls) = 3 * n_layers
        /\ \A n \in 1..n_layers :
              Cardinality({k \in 1..Len(glow.calls) :
                  glow.calls[k].layer = "linear" /\ glow.calls[k].i = n}) = 1
        /\ \A b \in 1..BatchSize(glow.in) :
              glow.logdet[b] =
                  LSum([k \in 1..Len(glow.calls) |-> Contribution(glow.calls[k], b)])

\* A forward pass over two samples whose log-determinants are nonzero and differ.
C3_Witness ==
    /\ IsForward
    /\ n_layers >= 2
    /\ nUpdates > 0
    /\ BatchSize(glow.in) = 2
    /\ glow.logdet[1] # LZero
    /\ glow.logdet[1] # glow.logdet[2]

\* The sub-layers of N stages in declared order.
Kinds == <<"actnorm", "linear", "coupling">>
DeclaredOrder(N) ==
    [k \in 1..(3 * N) |-> [layer |-> Kinds[((k - 1) % 3) + 1], i |-> ((k - 1) \div 3) + 1]]
Reversed(s) == [k \in 1..Len(s) |-> s[Len(s) + 1 - k]]
\* The sub-layers a pass called, in the order it called them.
Layers(calls) == [k \in 1..Len(calls) |-> [layer |-> calls[k].layer, i |-> calls[k].i]]
Ops(calls) == {calls[k].op : k \in 1..Len(calls)}

\* C4: forward calls, stage by stage in declared order, actnorm.forward, then
\* linear.forward, then coupling.forward; backward calls, from the last stage to
\* the first, coupling.backward, linear.backward, actnorm.backward: the reverse
\* of forward's sequence, each sub-layer once in each pass.
C4_ReverseOrderTraversal ==
    /\ IsForward =>
          /\ Layers(glow.calls) = DeclaredOrder(n_layers)
          /\ Ops(glow.calls) = {"forward"}
    /\ glow.op = "backward" =>
          /\ Layers(glow.calls) = Reversed(DeclaredOrder(n_layers))
          /\ Ops(glow.calls) = {"backward"}
    /\ IsInverse => Layers(glow.calls) = Reversed(Layers(glow.of.calls))

\* A backward pass over forward's output through two stages.
C4_Witness ==
    /\ IsInverse
    /\ n_layers >= 2
    /\ Len(glow.calls) = 3 * n_layers
    /\ glow.calls[1] # glow.of.calls[1]

\* An inverse pass that visits the stages in forward order, 1..N.
WrongOrderInverse(g, z) ==
    Bind([z |-> z, log_det_jacobians |-> StartLogdet(z), calls |-> <<>>],
         LAMBDA st: AscendFrom(g, 1, st))

====
